---- MODULE Spec2Model ----
(***************************************************************************)
(* GANBLR (src/ganblr/models/ganblr.py): the training orchestrator fit(),  *)
(* the sampler sample(), the TSTR scorer evaluate(), and the three         *)
(* sub-training runs _warmup_run, _run_generator and _discrim.             *)
(*                                                                         *)
(* Spec     the object and its public operations; fit() is followed call   *)
(*          by call, because its failures and the backend session are      *)
(*          observable between the calls it makes.                         *)
(* SpecCPD  the reconstruction of the full CPD tables in sample()          *)
(*          (lines 125-153), a pure function of the generator weights and  *)
(*          the kDB encoder's structure, in exact rational arithmetic.     *)
(***************************************************************************)
EXTENDS Integers, Sequences, FiniteSets, TLC

-----------------------------------------------------------------------------
(* Bounds of the model *)

\* fit(x, y): len(x) ranges over 1..MaxRows
MaxRows == 2
\* fit(x, y): x.shape[1] ranges over 1..MaxFeatures
MaxFeatures == 2
\* fit(k=...): k ranges over 0..MaxK
MaxK == 1
\* fit(epochs=...): epochs ranges over 0..MaxEpochs
MaxEpochs == 2
\* sample(size=...): size ranges over None and 1..MaxSize
MaxSize == 3
\* cardinality of a feature (own values of a CPD table)
MaxCard == 2
\* number of classes
MaxClasses == 2
\* number of parent combinations of the feature whose table is reconstructed
MaxCombos == 2
\* generator logits range over 0..MaxLogit
MaxLogit == 1

-----------------------------------------------------------------------------
(* Values *)

\* Python's None
None == [none |-> TRUE]

\* fit(batch_size=32)
DefaultBatchSize == 32

Min(a, b) == IF a < b THEN a ELSE b

VARIABLES
  classEdgesListed, \* whether the kDB encoder's edges_ lists the class->feature edges
  d,                \* self.__d
  gen_weights,      \* self.__gen_weights
  k,                \* self.k
  batch_size,       \* self.batch_size
  constraints,      \* self.constraints
  pc,               \* position inside fit(); "idle" when no call is running
  x,                \* fit's argument x
  epochs,           \* fit's argument epochs
  i,                \* fit's loop variable
  syn,              \* fit's local (syn_x, syn_y)
  discriminator_label, \* fit's local discriminator_label
  discriminator_input, \* fit's local discriminator_input
  disc,             \* fit's local disc, with the subsample it is fitted on
  ls,               \* fit's local ls
  loaded,           \* the weights _run_generator gave to model.set_weights
  session,          \* the networks registered in the Keras backend session
  nWarm, nDisc, nGen, nSample, \* history: what the running fit() has completed
  lastSaved,        \* history: the weights most recently stored by a training run
  lastNet,          \* history: the network the last sample() assembled
  weightsOf,        \* history: "none", or whether the stored weights were trained
                    \* on the dataset now in d ("d") or on an earlier one ("earlier")
  fitRet,           \* history: the last fit() call, its epochs and its outcome
  ret,              \* history: the last public call; for sample() and evaluate()
                    \* its argument, its outcome and the fields before it
  cpdPc, cpdIn, cpdOut \* SpecCPD: the reconstruction's input and output

objVars  == <<d, gen_weights, k, batch_size, constraints>>
fitVars  == <<pc, x, epochs, i, syn, discriminator_label, discriminator_input,
             disc, ls, loaded>>
histVars == <<nWarm, nDisc, nGen, nSample, lastSaved, lastNet, weightsOf, fitRet, ret>>
cpdVars  == <<cpdPc, cpdIn, cpdOut>>
vars == <<classEdgesListed, objVars, fitVars, session, histVars, cpdVars>>

\* the fields of the GANBLR instance (__init__, lines 15-20)
Stored == [d |-> d, gen_weights |-> gen_weights, k |-> k,
           batch_size |-> batch_size, constraints |-> constraints]

-----------------------------------------------------------------------------
(* The kDB encoder (d._kdbe), a collaborator outside these files.  Its      *)
(* outputs are the structures the documentation describes: each feature     *)
(* depends on the class and on up to k features ranked before it.  The      *)
(* documentation gives edges_ as (parent, child) pairs, says of the network *)
(* that its edges are the dependency edges plus the class -> feature edges, *)
(* and says of the edge list that it holds no class edge.  An encoder is of *)
(* one kind or the other for a whole run: classEdgesListed.                 *)

Features(nf) == 0 .. (nf - 1)

\* dependencies_: feature -> its feature parents (never the class)
KdbDependencies(nf, kk) ==
  { dep \in [Features(nf) -> SUBSET Features(nf)] :
      \A f \in Features(nf) :
        /\ dep[f] \subseteq 0 .. (f - 1)
        /\ Cardinality(dep[f]) = Min(f, kk) }

\* edges_: the (parent, child) pairs of dependencies_; with listed, the
\* class -> feature pairs too
KdbEdges(nf, dep, listed) ==
  { e \in Features(nf) \X Features(nf) : e[1] \in dep[e[2]] }
    \cup (IF listed THEN { <<nf, c>> : c \in Features(nf) } ELSE {})

\* d.get_kdbe_x(k) fits the encoder: what d._kdbe holds afterwards
KdbEncoder(nf, kk, listed) ==
  { [dependencies_ |-> dep, edges_ |-> KdbEdges(nf, dep, listed)] :
      dep \in KdbDependencies(nf, kk) }

\* DataUtils(x, y)
DataUtils(xx) == [data_size |-> xx.rows, num_features |-> xx.cols, kdbe |-> None]

-----------------------------------------------------------------------------
(* sample(), lines 155-186: the network and the sampled rows *)

\* node_names (the names are str(i); str is injective on integers)
NodeNames(dd) == 0 .. dd.num_features

\* y_name = node_names[-1]
YName(dd) == dd.num_features

\* BayesianNetwork(edge_names): a graph built from an edge list holds the
\* endpoints of its edges and nothing else
NetworkNodes(edge_names) ==
  { e[1] : e \in edge_names } \cup { e[2] : e \in edge_names }

\* TabularCPD(str(name), ..., evidence=[y_name, *evidences]): the variables
\* of a feature's CPD
FeatureCpdScope(dd, f) == {f, YName(dd)} \cup dd.kdbe.dependencies_[f]

\* y_cpd and feature_cpds
CpdScopes(dd) ==
  { {YName(dd)} } \cup { FeatureCpdScope(dd, f) : f \in Features(dd.num_features) }

\* model.add_cpds(y_cpd, *feature_cpds) raises for a CPD over a variable
\* that is no node of the model
CPDsAttachable(dd) ==
  \A sc \in CpdScopes(dd) : sc \subseteq NetworkNodes(dd.kdbe.edges_)

\* the network sample() has assembled when it reaches add_cpds
AssembledNetwork(dd) ==
  [nodes |-> NetworkNodes(dd.kdbe.edges_), cpds |-> CpdScopes(dd),
   names |-> NodeNames(dd)]

\* sample_size = d.data_size if size is None else size   (size: <<>> is None)
SampleSizeIgnored(size) == d.data_size
SampleSize(size) == IF size = <<>> THEN d.data_size ELSE size[1]

\* syn_X: sorted_result[:, :-1], or its one-hot encoding (a sparse matrix of
\* as many rows, its width the number of categories met)
SynX(n, ohe) ==
  IF ohe THEN [rows |-> n, onehot |-> TRUE]
         ELSE [rows |-> n, cols |-> Cardinality(NodeNames(d)) - 1]

\* syn_y: sorted_result[:, -1]
SynY(n) == [rows |-> n, column |-> YName(d)]

\* probs = np.exp(self.__gen_weights[0]) builds a new array: the stored
\* weights after the probabilities have been derived
ExpInPlace(w) == [w EXCEPT !.logits = FALSE]
WeightsAfterExp(w) == w

Raised == [status |-> "raised"]

\* sample() reads d and the weights before it builds the network
SampleReachesNetwork == d # None /\ gen_weights # None /\ d.kdbe # None

\* the outcomes of sample(size, ohe).  Weights trained for another dataset
\* than d (a fit() that failed after replacing d) have another layout than
\* the masks of d: the call may fail or return rows.
SampleResults(size, ohe) ==
  IF ~ SampleReachesNetwork THEN {Raised}
  ELSE IF ~ CPDsAttachable(d) THEN {Raised}
  ELSE { [status |-> "ok", X |-> SynX(SampleSize(size), ohe),
          y |-> SynY(SampleSize(size)), from |-> gen_weights] }
       \cup (IF weightsOf # "d" THEN {Raised} ELSE {})

\* what sample() leaves in lastNet
NetAfterSample == IF SampleReachesNetwork THEN AssembledNetwork(d) ELSE lastNet


-----------------------------------------------------------------------------
(* fit(), lines 41-60, one action per call it makes *)

Inputs == [rows : 1 .. MaxRows, cols : 1 .. MaxFeatures]

\* the frame of fit() is gone when the call ends
FrameGone ==
  /\ x' = None /\ epochs' = 0 /\ i' = 0 /\ syn' = None
  /\ discriminator_label' = None /\ discriminator_input' = None
  /\ disc' = None /\ ls' = None /\ loaded' = None

\* an exception in a call made by fit(): nothing in fit() catches it, the
\* call ends there
RaiseAndRetry ==
  /\ fitRet' = [fitRet EXCEPT !.status = "raised"]
  /\ UNCHANGED fitVars
Raise ==
  /\ pc' = "idle"
  /\ fitRet' = [fitRet EXCEPT !.status = "raised"]
  /\ FrameGone

\* lines 41-46
FitEntry(xx, kk, ep) ==
  /\ pc = "idle"
  /\ d' = DataUtils(xx)
  /\ k' = kk
  /\ batch_size' = DefaultBatchSize
  /\ x' = xx /\ epochs' = ep /\ i' = 0
  /\ pc' = "warmup"
  /\ nWarm' = 0 /\ nDisc' = 0 /\ nGen' = 0 /\ nSample' = 0
  /\ fitRet' = [status |-> "running", epochs |-> ep]
  /\ ret' = [op |-> "fit", status |-> "running", arg |-> None, out |-> None,
             before |-> None]
  /\ weightsOf' = IF gen_weights = None THEN "none" ELSE "earlier"
  /\ UNCHANGED <<classEdgesListed, gen_weights, constraints, syn,
                 discriminator_label, discriminator_input, disc, ls, loaded,
                 session, lastSaved, lastNet, cpdVars>>

\* _warmup_run, lines 189-193: clear_session, get_kdbe_x, softmax_weight, get_lr
WarmupBuild ==
  /\ pc = "warmup"
  /\ \E enc \in KdbEncoder(d.num_features, k, classEdgesListed) :
       d' = [d EXCEPT !.kdbe = enc]
  /\ constraints' = [softmax_weight |-> TRUE]
  /\ session' = <<"elr">>
  /\ pc' = "warmup_fit"
  /\ UNCHANGED <<classEdgesListed, gen_weights, k, batch_size, x, epochs, i, syn,
                 discriminator_label, discriminator_input, disc, ls, loaded,
                 histVars, cpdVars>>

\* the weights elr.get_weights() returns after the warmup
WarmupWeights == [ver |-> 0, logits |-> TRUE]

\* _warmup_run, lines 194-197: elr.fit, get_weights, clear_session; line 47
WarmupFit ==
  /\ UNCHANGED ret
  /\ pc = "warmup_fit"
  /\ \/ /\ gen_weights' = WarmupWeights
        /\ lastSaved' = WarmupWeights
        /\ weightsOf' = "d"
        /\ session' = <<>>
        /\ nWarm' = nWarm + 1
        /\ pc' = "sample0"
        /\ UNCHANGED <<x, epochs, i, syn, discriminator_label, discriminator_input,
                       disc, ls, loaded, fitRet>>
     \/ /\ Raise
        /\ UNCHANGED <<gen_weights, lastSaved, weightsOf, session, nWarm>>
  /\ UNCHANGED <<classEdgesListed, d, k, batch_size, constraints, nDisc, nGen,
                 nSample, lastNet, cpdVars>>

\* discriminator_label = hstack([ones(d.data_size), zeros(d.data_size)])
DiscriminatorLabel == [ones |-> d.data_size, zeros |-> d.data_size]

\* lines 48-49: the initial sample and the labels
Sample0 ==
  /\ UNCHANGED ret
  /\ pc = "sample0"
  /\ \E res \in SampleResults(<<>>, FALSE) :
       \/ /\ res.status = "ok"
          /\ syn' = res
          /\ discriminator_label' = DiscriminatorLabel
          /\ nSample' = nSample + 1
          /\ pc' = "loop"
          /\ UNCHANGED <<x, epochs, i, discriminator_input, disc, ls, loaded, fitRet>>
       \/ /\ res.status = "raised"
          /\ Raise
          /\ UNCHANGED nSample
  /\ gen_weights' = WeightsAfterExp(gen_weights)
  /\ lastNet' = NetAfterSample
  /\ UNCHANGED <<classEdgesListed, d, k, batch_size, constraints, session,
                 nWarm, nDisc, nGen, lastSaved, weightsOf, cpdVars>>

\* for i in range(epochs)
LoopContinuesOnceMore == i <= epochs
LoopContinues == i < epochs

\* np.vstack([x, syn_x])
DiscriminatorInputAccumulated(xx, sx) ==
  [real |-> xx.rows,
   syn |-> (IF discriminator_input = None THEN 0 ELSE discriminator_input.syn)
           + sx.X.rows,
   from |-> sx.from]
DiscriminatorInput(xx, sx) ==
  [real |-> xx.rows, syn |-> sx.X.rows, from |-> sx.from]

\* utils.sample(input, label, frac=0.8): the number of rows kept
Subsample(dinput) == ((dinput.real + dinput.syn) * 8) \div 10

\* lines 50-53 (a round begins) and line 60 (the loop is over)
LoopHead ==
  /\ UNCHANGED ret
  /\ pc = "loop"
  /\ IF LoopContinues
       THEN /\ discriminator_input' = DiscriminatorInput(x, syn)
            /\ disc' = [train_rows |-> Subsample(DiscriminatorInput(x, syn)),
                        fitted |-> FALSE]
            /\ session' = Append(session, "disc")
            /\ pc' = "disc_fit"
            /\ UNCHANGED <<x, epochs, i, syn, discriminator_label, ls, loaded, fitRet>>
       ELSE /\ pc' = "idle"
            /\ fitRet' = [fitRet EXCEPT !.status = "FIT"]
            /\ FrameGone
            /\ UNCHANGED session
  /\ UNCHANGED <<classEdgesListed, objVars, nWarm, nDisc, nGen, nSample,
                 lastSaved, lastNet, weightsOf, cpdVars>>

\* line 54: disc.fit
DiscFit ==
  /\ UNCHANGED ret
  /\ pc = "disc_fit"
  /\ \/ /\ disc' = [disc EXCEPT !.fitted = TRUE]
        /\ nDisc' = nDisc + 1
        /\ pc' = "predict"
        /\ UNCHANGED <<x, epochs, i, syn, discriminator_label, discriminator_input,
                       ls, loaded, fitRet>>
     \/ /\ Raise
        /\ UNCHANGED nDisc
  /\ UNCHANGED <<classEdgesListed, objVars, session, nWarm, nGen, nSample,
                 lastSaved, lastNet, weightsOf, cpdVars>>

\* lines 55-56: prob_fake = disc.predict(x); ls = mean(-log(1 - prob_fake))
Predict ==
  /\ pc = "predict"
  /\ ls' = [of |-> "x", rows |-> x.rows, round |-> i]
  /\ pc' = "gen_build"
  /\ UNCHANGED <<classEdgesListed, objVars, x, epochs, i, syn, discriminator_label,
                 discriminator_input, disc, loaded, session, histVars, cpdVars>>

\* _run_generator, lines 200-206: the session once the generator is built
SessionKeepsDiscriminator(s) == Append(s, "gen")
SessionForGenerator(s) == <<"gen">>

\* _run_generator, lines 200-206: get_kdbe_x, clear_session, build, set_weights
GenBuild ==
  /\ pc = "gen_build"
  /\ session' = SessionForGenerator(session)
  /\ loaded' = gen_weights
  /\ pc' = "gen_fit"
  /\ UNCHANGED <<classEdgesListed, objVars, x, epochs, i, syn, discriminator_label,
                 discriminator_input, disc, ls, histVars, cpdVars>>

\* the weights model.get_weights() returns after one epoch from w under loss
Refine(w, loss) == [w EXCEPT !.ver = @ + 1]

\* _run_generator, lines 207-210: model.fit, get_weights, clear_session; line 57
GenFit ==
  /\ UNCHANGED ret
  /\ pc = "gen_fit"
  /\ \/ /\ gen_weights' = Refine(loaded, ls)
        /\ lastSaved' = Refine(loaded, ls)
        /\ session' = <<>>
        /\ nGen' = nGen + 1
        /\ pc' = "resample"
        /\ UNCHANGED <<x, epochs, i, syn, discriminator_label, discriminator_input,
                       disc, ls, loaded, fitRet>>
     \/ /\ Raise
        /\ UNCHANGED <<gen_weights, lastSaved, session, nGen>>
  /\ UNCHANGED <<classEdgesListed, d, k, batch_size, constraints, nWarm, nDisc,
                 nSample, lastNet, weightsOf, cpdVars>>

\* line 58: syn_x, syn_y = self.sample(); the round is over
Resample ==
  /\ UNCHANGED ret
  /\ pc = "resample"
  /\ \E res \in SampleResults(<<>>, FALSE) :
       \/ /\ res.status = "ok"
          /\ syn' = res
          /\ nSample' = nSample + 1
          /\ i' = i + 1
          /\ pc' = "loop"
          /\ UNCHANGED <<x, epochs, discriminator_label, discriminator_input, disc,
                         ls, loaded, fitRet>>
       \/ /\ res.status = "raised"
          /\ Raise
          /\ UNCHANGED nSample
  /\ gen_weights' = WeightsAfterExp(gen_weights)
  /\ lastNet' = NetAfterSample
  /\ UNCHANGED <<classEdgesListed, d, k, batch_size, constraints, session,
                 nWarm, nDisc, nGen, lastSaved, weightsOf, cpdVars>>


-----------------------------------------------------------------------------
(* sample() and evaluate() as public calls *)

Sizes == {<<>>} \cup { <<n>> : n \in 1 .. MaxSize }

\* sample(size, ohe), lines 122-186
Sample(size, ohe) ==
  /\ UNCHANGED fitRet
  /\ pc = "idle"
  /\ \E res \in SampleResults(size, ohe) :
       ret' = [op |-> "sample", status |-> res.status,
               arg |-> [size |-> size, ohe |-> ohe], out |-> res, before |-> Stored]
  /\ gen_weights' = WeightsAfterExp(gen_weights)
  /\ lastNet' = NetAfterSample
  /\ UNCHANGED <<classEdgesListed, d, k, batch_size, constraints, fitVars, session,
                 nWarm, nDisc, nGen, nSample, lastSaved, weightsOf, cpdVars>>

\* the values given as evaluate's model: the three names, an unknown name,
\* the integer 42 and an estimator object with a fit method
Models ==
  { [name |-> n, hasFit |-> FALSE] : n \in {"lr", "rf", "mlp", "unknown_model", "42"} }
    \cup { [name |-> "estimator", hasFit |-> TRUE] }

\* lines 84-98: the if/elif chain finds an eval_model
AnyModel(m) == TRUE
Recognised(m) == m.name \in {"lr", "rf", "mlp"} \/ m.hasFit

\* evaluate(x, y, model), lines 84-103
Evaluate(m) ==
  /\ UNCHANGED fitRet
  /\ pc = "idle"
  /\ IF ~ Recognised(m)
       THEN /\ ret' = [op |-> "evaluate", status |-> "InvalidArgument", arg |-> m,
                       out |-> [sampled |-> FALSE, fit_called |-> FALSE],
                       before |-> Stored]
            /\ UNCHANGED <<gen_weights, lastNet>>
       ELSE /\ \E res \in SampleResults(<<>>, FALSE) :
                 \/ /\ res.status = "raised"
                    /\ ret' = [op |-> "evaluate", status |-> "raised", arg |-> m,
                               out |-> [sampled |-> TRUE, fit_called |-> FALSE],
                               before |-> Stored]
                 \/ /\ res.status = "ok"
                    /\ \E st \in {"ok", "raised"} :
                         ret' = [op |-> "evaluate", status |-> st, arg |-> m,
                                 out |-> [sampled |-> TRUE, fit_called |-> TRUE],
                                 before |-> Stored]
            /\ gen_weights' = WeightsAfterExp(gen_weights)
            /\ lastNet' = NetAfterSample
  /\ UNCHANGED <<classEdgesListed, d, k, batch_size, constraints, fitVars, session,
                 nWarm, nDisc, nGen, nSample, lastSaved, weightsOf, cpdVars>>

-----------------------------------------------------------------------------
(* The object after __init__ (lines 15-20), with no call running *)

Init ==
  /\ classEdgesListed \in BOOLEAN
  /\ d = None /\ gen_weights = None /\ k = None /\ batch_size = None
  /\ constraints = None
  /\ pc = "idle" /\ x = None /\ epochs = 0 /\ i = 0 /\ syn = None
  /\ discriminator_label = None /\ discriminator_input = None /\ disc = None
  /\ ls = None /\ loaded = None
  /\ session = <<>>
  /\ nWarm = 0 /\ nDisc = 0 /\ nGen = 0 /\ nSample = 0
  /\ lastSaved = None /\ lastNet = None /\ weightsOf = "none"
  /\ fitRet = [status |-> "UNFIT", epochs |-> 0]
  /\ ret = [op |-> "init", status |-> "ok", arg |-> None, out |-> None,
            before |-> [d |-> None, gen_weights |-> None, k |-> None,
                        batch_size |-> None, constraints |-> None]]
  /\ cpdPc = "off" /\ cpdIn = None /\ cpdOut = None

Next ==
  \/ \E xx \in Inputs, kk \in 0 .. MaxK, ep \in 0 .. MaxEpochs : FitEntry(xx, kk, ep)
  \/ WarmupBuild
  \/ WarmupFit
  \/ Sample0
  \/ LoopHead
  \/ DiscFit
  \/ Predict
  \/ GenBuild
  \/ GenFit
  \/ Resample
  \/ \E size \in Sizes, ohe \in BOOLEAN : Sample(size, ohe)
  \/ \E m \in Models : Evaluate(m)

Spec == Init /\ [][Next]_vars


-----------------------------------------------------------------------------
(* Properties of fit(), sample() and evaluate(), stated for Spec *)

\* C1: evaluate() with a model that is none of 'lr', 'rf', 'mlp' and has no
\* fit attribute ends with the invalid-argument error, before sample() is
\* called and before any classifier is fitted, and leaves every field of the
\* instance as it was.
C1_InvalidModelRaisesFirst ==
  (ret.op = "evaluate" /\ ret.arg.name \notin {"lr", "rf", "mlp"} /\ ~ ret.arg.hasFit)
    => /\ ret.status = "InvalidArgument"
       /\ ~ ret.out.sampled
       /\ ~ ret.out.fit_called
       /\ Stored = ret.before

\* evaluate(model=42) was refused on a fitted model
C1_Witness ==
  /\ ret.op = "evaluate" /\ ret.arg.name = "42"
  /\ ret.status = "InvalidArgument"
  /\ fitRet.status = "FIT"

\* C2: after a fit() that returned, sample(size, ohe) returns; X and y have
\* size rows each, or data_size rows each when size is None; without one-hot
\* encoding X has num_features columns; y is the class column.
C2_SampleRowCount ==
  ret.op = "sample" =>
    /\ fitRet.status = "FIT" => ret.status = "ok"
    /\ ret.status = "ok" =>
         /\ ret.out.X.rows =
              (IF ret.arg.size = <<>> THEN d.data_size ELSE ret.arg.size[1])
         /\ ret.out.y.rows = ret.out.X.rows
         /\ ~ ret.arg.ohe => ret.out.X.cols = d.num_features
         /\ ret.out.y.column = d.num_features

\* sample(size=3) returned 3 rows from a model fitted on fewer rows
C2_Witness ==
  /\ ret.op = "sample" /\ ret.status = "ok" /\ fitRet.status = "FIT"
  /\ ret.arg.size = <<3>> /\ ret.out.X.rows = 3 /\ d.data_size < 3

\* C4: inside fit() the warmup has run exactly once before the initial
\* sample; round i (counted from 0) fits the discriminator, then scores x and
\* computes the loss, then refines the generator, then samples again; when
\* fit() returns it has made exactly epochs discriminator fits, epochs
\* generator refinements and epochs + 1 sample() calls.
C4_FitProtocol ==
  /\ pc \in {"warmup", "warmup_fit"} =>
       nWarm = 0 /\ nSample = 0 /\ nDisc = 0 /\ nGen = 0
  /\ pc = "sample0" => nWarm = 1 /\ nSample = 0 /\ nDisc = 0 /\ nGen = 0
  /\ pc = "loop" =>
       nWarm = 1 /\ i <= epochs /\ nDisc = i /\ nGen = i /\ nSample = i + 1
  /\ pc = "disc_fit" =>
       nWarm = 1 /\ i < epochs /\ nDisc = i /\ nGen = i /\ nSample = i + 1
  /\ pc = "predict" =>
       nWarm = 1 /\ i < epochs /\ nDisc = i + 1 /\ nGen = i /\ nSample = i + 1
  /\ pc \in {"gen_build", "gen_fit"} =>
       /\ nWarm = 1 /\ i < epochs /\ nDisc = i + 1 /\ nGen = i /\ nSample = i + 1
       /\ ls # None /\ ls.round = i
  /\ pc = "resample" =>
       nWarm = 1 /\ i < epochs /\ nDisc = i + 1 /\ nGen = i + 1 /\ nSample = i + 1
  /\ fitRet.status = "FIT" =>
       /\ pc = "idle" /\ nWarm = 1
       /\ nDisc = fitRet.epochs /\ nGen = fitRet.epochs
       /\ nSample = fitRet.epochs + 1
  /\ fitRet.status = "running" <=> pc # "idle"

\* a fit() with epochs = 2 has returned
C4_Witness ==
  fitRet.status = "FIT" /\ fitRet.epochs = 2 /\ nDisc = 2 /\ nGen = 2 /\ nSample = 3

\* C5: once a call made by fit() has failed, the call is over: no step of it
\* runs afterwards and it does not return the instance.  What follows is
\* another public call, and only a new fit() counts steps again.
C5_FailureEndsFit ==
  [][ fitRet.status = "raised" =>
        /\ pc = "idle"
        /\ \/ pc' = "warmup" /\ fitRet'.status = "running"
           \/ /\ pc' = "idle" /\ fitRet' = fitRet
              /\ UNCHANGED <<nWarm, nDisc, nGen, nSample, lastSaved>> ]_vars

\* a fit() has failed in its first round, with a round still to run
C5_Witness ==
  /\ fitRet.status = "raised" /\ fitRet.epochs = 2
  /\ nDisc = 1 /\ nGen = 0 /\ pc = "idle"

\* C7: the stored weights are at every moment the weights a training run
\* last saved; a sample() or evaluate() call leaves every field of the
\* instance as it was; _run_generator loads exactly the weights last saved.
C7_WeightsOnlyChangeInTraining ==
  /\ gen_weights = lastSaved
  /\ ret.op \in {"sample", "evaluate"} => Stored = ret.before
  /\ pc = "gen_fit" => loaded = lastSaved

\* evaluate() has sampled from weights two refinements after the warmup
C7_Witness ==
  /\ ret.op = "evaluate" /\ ret.out.sampled /\ ret.status = "ok"
  /\ gen_weights # None /\ gen_weights.ver = 2

\* C8: while a round trains and uses its discriminator, the training set is
\* data_size real rows and data_size synthetic rows, the labels data_size
\* ones and data_size zeros, and the synthetic rows were sampled from the
\* stored weights: the warmup's in round 0, round i - 1's in round i.
C8_DiscriminatorTrainingSet ==
  pc \in {"disc_fit", "predict", "gen_build", "gen_fit"} =>
    /\ discriminator_input.real = d.data_size
    /\ discriminator_input.syn = d.data_size
    /\ discriminator_label.ones = d.data_size
    /\ discriminator_label.zeros = d.data_size
    /\ discriminator_input.real + discriminator_input.syn = 2 * d.data_size
    /\ discriminator_input.from = gen_weights
    /\ discriminator_input.from.ver = i

\* the second round's discriminator is being fitted on a two-row dataset
C8_Witness ==
  pc = "disc_fit" /\ i = 1 /\ d.data_size = 2 /\ discriminator_input.syn = 2

\* C9: the session holds at most one network; a network fit() has built is
\* alone in the session; the session is empty when fit() has returned.
C9_SessionDiscipline ==
  /\ Len(session) <= 1
  /\ pc = "warmup_fit" => session = <<"elr">>
  /\ pc \in {"disc_fit", "predict"} => session = <<"disc">>
  /\ pc = "gen_fit" => session = <<"gen">>
  /\ fitRet.status = "FIT" => session = <<>>

\* the second round's generator is alone in the session
C9_Witness ==
  pc = "gen_fit" /\ i = 1 /\ session = <<"gen">>

-----------------------------------------------------------------------------
(* sample(), lines 125-153: the full CPD tables.  A matrix is a sequence   *)
(* of rows; Python's index j is index j + 1 here.  A probability is an     *)
(* exact fraction <<numerator, denominator>>.                              *)

RECURSIVE SumSeq(_)
SumSeq(q) == IF q = <<>> THEN 0 ELSE Head(q) + SumSeq(Tail(q))

RECURSIVE Concat(_)
\* np.vstack, np.hstack of a list of arrays
Concat(qs) == IF qs = <<>> THEN <<>> ELSE Head(qs) \o Concat(Tail(qs))

CountTrue(q) == Cardinality({ j \in 1 .. Len(q) : q[j] })

Zero == <<0, 1>>
RatAdd(p, q) == <<p[1] * q[2] + q[1] * p[2], p[2] * q[2]>>
RECURSIVE RatSum(_)
RatSum(q) == IF q = <<>> THEN Zero ELSE RatAdd(Head(q), RatSum(Tail(q)))
IsOne(p) == p[1] = p[2]
IsZero(p) == p[1] = 0

\* the encoder's constraints_: for every feature and every parent
\* combination, the number of own values met with it
KdbConstraints(masks) ==
  Concat([f \in 1 .. Len(masks) |->
            [pcomb \in 1 .. Len(masks[f]) |-> CountTrue(masks[f][pcomb])]])

\* the encoder's high_order_feature_uniques_: the encoded width of a feature
KdbHighOrderFeatureUniques(masks) ==
  [f \in 1 .. Len(masks) |-> CountTrue(Concat(masks[f]))]

\* np.cumsum([0] + sizes)
CumSum0(sizes) == [j \in 1 .. Len(sizes) + 1 |-> SumSeq(SubSeq(sizes, 1, j - 1))]

\* [(idxs[i], idxs[i+1]) for i in range(len(idxs)-1)]
IdxPairs(idxs) == [j \in 1 .. Len(idxs) - 1 |-> <<idxs[j], idxs[j + 1]>>]

\* lines 128-129
ConstraintIdxs(inp) == IdxPairs(CumSum0(inp.constraints_))

\* lines 136-137
FeatureIdxs(inp) == IdxPairs(CumSum0(inp.high_order_feature_uniques_))

\* m[start:end, :]
RowSlice(m, se) == SubSeq(m, se[1] + 1, se[2])

\* np.exp on the logit grid: positive and increasing (2^w stands for e^w)
Exp(w) == 2 ^ w

\* line 131
Probs(inp) ==
  [r \in 1 .. Len(inp.weights) |->
     [c \in 1 .. inp.num_classes |-> Exp(inp.weights[r][c])]]

\* p.sum(axis=0)[c]
ColSum(p, c) == SumSeq([r \in 1 .. Len(p) |-> p[r][c]])

\* p / p.sum(axis=0)
DivideByColSum(p, nc) ==
  LET sums == [c \in 1 .. nc |-> ColSum(p, c)]
  IN  [r \in 1 .. Len(p) |-> [c \in 1 .. nc |-> <<p[r][c], sums[c]>>]]

\* lines 132-133
CpdProbs(inp) ==
  LET constraint_idxs == ConstraintIdxs(inp)
      probs == Probs(inp)
  IN  Concat([g \in 1 .. Len(constraint_idxs) |->
                DivideByColSum(RowSlice(probs, constraint_idxs[g]),
                               inp.num_classes)])

\* m.ravel(): row after row
Ravel(m, nc) == Concat(m)

\* m.T.ravel(): column after column
TRavel(m, nc) == Concat([c \in 1 .. nc |-> [r \in 1 .. Len(m) |-> m[r][c]]])

\* lines 144-146
HaveValueRavelRepeat(have_value, nc) ==
  Concat([c \in 1 .. nc |-> Concat(have_value)])

\* lines 148-149: zeros, then the values at the True positions, in order
\* (numpy refuses a number of values other than the number of True positions)
Scatter(positions, values) ==
  [j \in 1 .. Len(positions) |->
     IF positions[j] THEN values[CountTrue(SubSeq(positions, 1, j))] ELSE Zero]

\* line 151: reshape(-1, have_value.shape[-1]).T
ReshapeT(flat, width) ==
  [v \in 1 .. width |->
     [col \in 1 .. (Len(flat) \div width) |-> flat[(col - 1) * width + v]]]

Column(table, col) == [v \in 1 .. Len(table) |-> table[v][col]]

\* kdb._add_uniform(array, noise=0): a column that sums to 0 becomes uniform,
\* every other column is passed through
AddUniform(table) ==
  LET zero_col == [col \in 1 .. Len(table[1]) |-> IsZero(RatSum(Column(table, col)))]
  IN  [v \in 1 .. Len(table) |->
         [col \in 1 .. Len(table[v]) |->
            IF zero_col[col] THEN <<1, Len(table)>> ELSE table[v][col]]]

\* lines 140-153, one pass of the loop
FullCpdProb(inp, cpd_probs, f) ==
  LET have_value == inp.have_value_idxs_[f]
      cpd_prob == RowSlice(cpd_probs, FeatureIdxs(inp)[f])
      positions == HaveValueRavelRepeat(have_value, inp.num_classes)
      values == TRavel(cpd_prob, inp.num_classes)
  IN  IF CountTrue(positions) # Len(values) THEN Raised
      ELSE [status |-> "ok",
            table |-> AddUniform(ReshapeT(Scatter(positions, values),
                                          Len(have_value[1])))]

\* lines 139-153
FullCpdProbs(inp) ==
  LET cpd_probs == CpdProbs(inp)
  IN  [f \in 1 .. Len(inp.have_value_idxs_) |-> FullCpdProb(inp, cpd_probs, f)]

\* the masks of a feature with np parent combinations and nv own values
Masks(np, nv) == [1 .. np -> [1 .. nv -> BOOLEAN]]

\* a feature without feature parents: every own value has been met
NoParentMasks == { [pcomb \in 1 .. 1 |-> [v \in 1 .. nv |-> TRUE]] : nv \in 1 .. MaxCard }

\* the weight matrix w[r][c] = (a r + b c) mod (MaxLogit + 1)
WeightMatrix(width, nc, a, b) ==
  [r \in 1 .. width |-> [c \in 1 .. nc |-> (a * r + b * c) % (MaxLogit + 1)]]

\* what sample() reads: d.num_classes, the encoder's structure, the weights
CpdInput(masks, nc, a, b) ==
  [num_classes |-> nc, have_value_idxs_ |-> masks,
   constraints_ |-> KdbConstraints(masks),
   high_order_feature_uniques_ |-> KdbHighOrderFeatureUniques(masks),
   weights |-> WeightMatrix(SumSeq(KdbConstraints(masks)), nc, a, b)]

InitCPD ==
  /\ classEdgesListed = TRUE
  /\ d = None /\ gen_weights = None /\ k = None /\ batch_size = None
  /\ constraints = None
  /\ pc = "idle" /\ x = None /\ epochs = 0 /\ i = 0 /\ syn = None
  /\ discriminator_label = None /\ discriminator_input = None /\ disc = None
  /\ ls = None /\ loaded = None
  /\ session = <<>>
  /\ nWarm = 0 /\ nDisc = 0 /\ nGen = 0 /\ nSample = 0
  /\ lastSaved = None /\ lastNet = None /\ weightsOf = "none"
  /\ fitRet = [status |-> "UNFIT", epochs |-> 0]
  /\ ret = [op |-> "init", status |-> "ok", arg |-> None, out |-> None,
            before |-> None]
  /\ cpdPc = "input" /\ cpdOut = None
  /\ \E m0 \in NoParentMasks, np \in 1 .. MaxCombos, nv \in 1 .. MaxCard :
       \E m1 \in Masks(np, nv), nc \in 1 .. MaxClasses :
         \E a \in 0 .. MaxLogit, b \in 0 .. MaxLogit :
           cpdIn = CpdInput(<<m0, m1>>, nc, a, b)

\* sample() reconstructs the tables
Reconstruct ==
  /\ cpdPc = "input"
  /\ cpdOut' = FullCpdProbs(cpdIn)
  /\ cpdPc' = "done"
  /\ UNCHANGED <<classEdgesListed, objVars, fitVars, session, histVars, cpdIn>>

NextCPD == Reconstruct

SpecCPD == InitCPD /\ [][NextCPD]_vars

\* C3: in every reconstructed table, every (class, parent combination)
\* column sums to 1 over the feature's own values; in a column with a valid
\* position the positive entries are exactly the positions the have-value
\* mask marks valid.
C3_ColumnStochastic ==
  cpdPc = "done" =>
    \A f \in 1 .. Len(cpdOut) :
      LET table == cpdOut[f].table
          have_value == cpdIn.have_value_idxs_[f]
          ncomb == Len(have_value)
      IN  /\ cpdOut[f].status = "ok"
          /\ Len(table) = Len(have_value[1])
          /\ \A v \in 1 .. Len(table) : Len(table[v]) = cpdIn.num_classes * ncomb
          /\ \A c \in 1 .. cpdIn.num_classes, pcomb \in 1 .. ncomb :
               LET col == (c - 1) * ncomb + pcomb
               IN  /\ IsOne(RatSum(Column(table, col)))
                   /\ CountTrue(have_value[pcomb]) > 0 =>
                        \A v \in 1 .. Len(table) :
                          have_value[pcomb][v] <=> ~ IsZero(table[v][col])

\* a table was rebuilt for a feature with two parent combinations, one of
\* them never met, two classes and logits that differ
C3_Witness ==
  /\ cpdPc = "done"
  /\ cpdIn.num_classes = 2
  /\ Len(cpdIn.have_value_idxs_[2]) = 2
  /\ CountTrue(cpdIn.have_value_idxs_[2][1]) = 0
  /\ CountTrue(cpdIn.have_value_idxs_[2][2]) = 2
  /\ cpdIn.weights[1][1] # cpdIn.weights[2][1]
  /\ cpdOut[2].table[1][2] # cpdOut[2].table[2][2]


====
